---- MODULE Spec2Model ----
(***************************************************************************)
(* Model of the coordinator of db_report_agents (src/coordinator.py) and   *)
(* of the two remote agents it calls (src/agents/retrieval_agents.py,      *)
(* src/agents/report_agents.py).                                           *)
(*                                                                         *)
(* Python values are records of one uniform type                           *)
(*     [kind, items, text]                                                 *)
(* kind "list": items are the row ids; kind "str": text is the message, or *)
(* items are the base64 sextets of an encoded file; kind "none", "int",    *)
(* "map" (a nested mapping whose content the coordinator never reads),     *)
(* "reply" (a CallToolResult object embedded in a mapping), and "absent"   *)
(* for a key a mapping does not hold.                                      *)
(***************************************************************************)
EXTENDS Integers, Sequences, FiniteSets, TLC

\* Largest number of rows of sample.csv and of the returns table.
MaxRows == 2
\* Number of successive process starts (runs of the startup init_db).
MaxBoots == 2

\* Concurrent requests to POST /process.
Reqs == {"r1", "r2"}

(***************************************************************************)
(* Python values                                                           *)
(***************************************************************************)
Val(k, s, t) == [kind |-> k, items |-> s, text |-> t]
Absent == Val("absent", <<>>, "")
None == Val("none", <<>>, "")
Str(t) == Val("str", <<>>, t)
List(s) == Val("list", s, "")
IntV(n) == Val("int", <<n>>, "")
NestedMap == Val("map", <<>>, "")
ReplyObject == Val("reply", <<>>, "")

IsList(v) == v.kind = "list"
IsStr(v) == v.kind = "str"

\* Python truthiness, as used by `x or y` and `not x`.
Truthy(v) ==
    CASE v.kind = "list" -> v.items # <<>>
      [] v.kind = "str" -> v.text # "" \/ v.items # <<>>
      [] v.kind = "int" -> v.items[1] # 0
      [] v.kind = "none" -> FALSE
      [] v.kind = "absent" -> FALSE
      [] OTHER -> TRUE

\* len(v) is defined for lists and strings only; TypeError otherwise.
HasLen(v) == v.kind \in {"list", "str", "map"}

(***************************************************************************)
(* Mappings (dict): a fixed set of keys, Absent where the key is missing.  *)
(***************************************************************************)
Keys == {"status", "rows", "result", "message", "error", "file_name", "file_base64",
         "rows_inserted", "count"}
EmptyMap == [k \in Keys |-> Absent]
Has(m, k) == m[k] # Absent
Get(m, k, d) == IF Has(m, k) THEN m[k] ELSE d

\* A payload is a mapping, or a plain value (a list, None, a string).
PMap(m) == [pk |-> "map", m |-> m, v |-> None]
PVal(v) == [pk |-> "val", m |-> EmptyMap, v |-> v]
IsDict(p) == p.pk = "map"
IsListP(p) == p.pk = "val" /\ IsList(p.v)

\* What call_tool hands back: a CallToolResult carrying structured_content,
\* or (from a stand-in client) a plain object.
CallToolResult(p) == [shape |-> "ctr", p |-> p]
Plain(p) == [shape |-> "plain", p |-> p]
NoReply == Plain(PVal(Absent))

EmptyList == List(<<>>)

\* src/coordinator.py unwrap_rows
unwrap_rows(resp) ==
    IF resp.shape = "ctr"
    THEN LET sc == resp.p IN
         IF IsDict(sc) /\ Has(sc.m, "rows") THEN sc.m.rows
         ELSE IF IsDict(sc) /\ Has(sc.m, "result") /\ IsList(sc.m.result)
              THEN sc.m.result
         ELSE IF IsListP(sc) THEN sc.v
         ELSE EmptyList
    ELSE IF IsDict(resp.p)
         THEN LET a == Get(resp.p.m, "rows", None) IN
              IF Truthy(a) THEN a ELSE Get(resp.p.m, "result", EmptyList)
    ELSE IF IsListP(resp.p) THEN resp.p.v
    ELSE EmptyList

(***************************************************************************)
(* Intent routing: the language model's output and json.loads              *)
(***************************************************************************)
\* A RoutingDecision as json.loads yields it. kind is the JSON type of the
\* top-level value; args is "absent", "empty" ({}), "prompt" ({"prompt": ..}),
\* "limit" ({"limit": 1}) or "list" (a JSON array); repr is str(plan).
Plan(k, tool, args, error, repr) ==
    [kind |-> k, tool |-> tool, args |-> args, error |-> error, repr |-> repr]

\* The texts the oracle may answer with.
LlmTexts ==
    { "{\"tool\":\"ingest_csv\",\"args\":{}}",
      "{\"tool\":\"query_db\",\"args\":{}}",
      "{\"tool\":\"query_db\",\"args\":{\"prompt\":\"count\"}}",
      "{\"tool\":\"query_db\",\"args\":[1]}",
      "{\"tool\":\"list_returns\",\"args\":{}}",
      "{\"tool\":\"list_returns\",\"args\":{\"limit\":1}}",
      "{\"tool\":\"generate_report\",\"args\":{}}",
      "{\"tool\":\"none\",\"args\":{}}",
      "{\"tool\":\"drop_table\",\"args\":{}}",
      "{\"tool\":5}",
      "{\"args\":{}}",
      "[1,2]",
      "\"list_returns\"",
      "list_returns",
      "" }

\* An oracle outcome: the call fails, or it answers with a text.
LlmOutcomes ==
    {[fails |-> TRUE, content |-> ""]} \cup {[fails |-> FALSE, content |-> t] : t \in LlmTexts}

Sentinel == Plan("map", Str("none"), "empty", Str("cannot parse"),
                 "{'tool': 'none', 'args': {}, 'error': 'cannot parse'}")

\* json.loads on the texts above: ok is FALSE where it raises.
json_loads(t) ==
    CASE t = "{\"tool\":\"ingest_csv\",\"args\":{}}" ->
           [ok |-> TRUE, plan |-> Plan("map", Str("ingest_csv"), "empty", Absent,
                                       "{'tool': 'ingest_csv', 'args': {}}")]
      [] t = "{\"tool\":\"query_db\",\"args\":{}}" ->
           [ok |-> TRUE, plan |-> Plan("map", Str("query_db"), "empty", Absent,
                                       "{'tool': 'query_db', 'args': {}}")]
      [] t = "{\"tool\":\"query_db\",\"args\":{\"prompt\":\"count\"}}" ->
           [ok |-> TRUE, plan |-> Plan("map", Str("query_db"), "prompt", Absent,
                                       "{'tool': 'query_db', 'args': {'prompt': 'count'}}")]
      [] t = "{\"tool\":\"query_db\",\"args\":[1]}" ->
           [ok |-> TRUE, plan |-> Plan("map", Str("query_db"), "list", Absent,
                                       "{'tool': 'query_db', 'args': [1]}")]
      [] t = "{\"tool\":\"list_returns\",\"args\":{}}" ->
           [ok |-> TRUE, plan |-> Plan("map", Str("list_returns"), "empty", Absent,
                                       "{'tool': 'list_returns', 'args': {}}")]
      [] t = "{\"tool\":\"list_returns\",\"args\":{\"limit\":1}}" ->
           [ok |-> TRUE, plan |-> Plan("map", Str("list_returns"), "limit", Absent,
                                       "{'tool': 'list_returns', 'args': {'limit': 1}}")]
      [] t = "{\"tool\":\"generate_report\",\"args\":{}}" ->
           [ok |-> TRUE, plan |-> Plan("map", Str("generate_report"), "empty", Absent,
                                       "{'tool': 'generate_report', 'args': {}}")]
      [] t = "{\"tool\":\"none\",\"args\":{}}" ->
           [ok |-> TRUE, plan |-> Plan("map", Str("none"), "empty", Absent,
                                       "{'tool': 'none', 'args': {}}")]
      [] t = "{\"tool\":\"drop_table\",\"args\":{}}" ->
           [ok |-> TRUE, plan |-> Plan("map", Str("drop_table"), "empty", Absent,
                                       "{'tool': 'drop_table', 'args': {}}")]
      [] t = "{\"tool\":5}" ->
           [ok |-> TRUE, plan |-> Plan("map", IntV(5), "absent", Absent, "{'tool': 5}")]
      [] t = "{\"args\":{}}" ->
           [ok |-> TRUE, plan |-> Plan("map", Absent, "empty", Absent, "{'args': {}}")]
      [] t = "[1,2]" ->
           [ok |-> TRUE, plan |-> Plan("list", Absent, "absent", Absent, "[1, 2]")]
      [] t = "\"list_returns\"" ->
           [ok |-> TRUE, plan |-> Plan("str", Absent, "absent", Absent, "list_returns")]
      [] OTHER -> [ok |-> FALSE, plan |-> Sentinel]

\* src/coordinator.py interpret_with_llm: llm.invoke stands outside the try,
\* json.loads inside it. raised is TRUE where the function raises.
interpret_with_llm(out) ==
    IF out.fails THEN [raised |-> TRUE, plan |-> Sentinel]
    ELSE LET parsed == json_loads(out.content) IN
         IF parsed.ok THEN [raised |-> FALSE, plan |-> parsed.plan]
         ELSE [raised |-> FALSE, plan |-> Sentinel]

\* plan.get("tool"): None where the key is missing.
PlanTool(plan) == IF plan.tool = Absent THEN None ELSE plan.tool

\* The chain with its last branch taken as the list branch.
Branch_DefaultList(tool) ==
    CASE tool = Str("ingest_csv") -> "ingest"
      [] tool = Str("query_db") -> "query"
      [] tool = Str("generate_report") -> "report"
      [] OTHER -> "list"

\* The if/elif chain of process_request over the routed tool.
Branch(tool) ==
    CASE tool = Str("ingest_csv") -> "ingest"
      [] tool = Str("query_db") -> "query"
      [] tool = Str("list_returns") -> "list"
      [] tool = Str("generate_report") -> "report"
      [] OTHER -> "unknown"

\* f"unknown task: {plan}"
UnknownMessage(plan) == Str("unknown task: " \o plan.repr)

(***************************************************************************)
(* base64, as the reporting agent encodes and the endpoint decodes: a text *)
(* is its sequence of sextets, a file its sequence of bytes.               *)
(***************************************************************************)
RECURSIVE b64encode(_)
b64encode(bytes) ==
    IF Len(bytes) < 3 THEN <<>>
    ELSE LET n == bytes[1] * 65536 + bytes[2] * 256 + bytes[3] IN
         <<n \div 262144, (n \div 4096) % 64, (n \div 64) % 64, n % 64>>
             \o b64encode(SubSeq(bytes, 4, Len(bytes)))

RECURSIVE b64decode(_)
b64decode(sx) ==
    IF Len(sx) < 4 THEN <<>>
    ELSE LET n == sx[1] * 262144 + sx[2] * 4096 + sx[3] * 64 + sx[4] IN
         <<n \div 65536, (n \div 256) % 256, n % 256>>
             \o b64decode(SubSeq(sx, 5, Len(sx)))

\* base64.b64decode raises binascii.Error on a text whose length is no
\* multiple of four ("Incorrect padding"), TypeError on a non-string.
Decodable(v) == IsStr(v) /\ Len(v.items) % 4 = 0

\* Contents the spreadsheet writer may produce.
FileContents == {<<80, 75, 3>>, <<80, 75, 4>>}
Base64Str(sx) == Val("str", sx, "")

(***************************************************************************)
(* The retrieval agent (src/agents/retrieval_agents.py)                    *)
(***************************************************************************)
\* The returns table of one SQLite file, and sample.csv.
NoTable == [exists |-> FALSE, rows |-> <<>>]
Table(rows) == [exists |-> TRUE, rows |-> rows]
RowSeqs == {[i \in 1..n |-> i] : n \in 0..MaxRows}
Tables == {NoTable} \cup {Table(s) : s \in RowSeqs}
CsvFiles == {NoTable, Table(<<>>), Table([i \in 1..MaxRows |-> i])}

Take(s, n) == SubSeq(s, 1, IF n < Len(s) THEN n ELSE Len(s))

ErrorIndicator(text) ==
    [EmptyMap EXCEPT !.status = Str("error"), !.error = Str(text)]

\* ingest_csv: the reply and the table it leaves; io is FALSE where
\* read_csv or SQLite raises.
ingest_csv(csv, table, io) ==
    IF ~csv.exists
    THEN [reply |-> ErrorIndicator("csv not found"), table |-> table]
    ELSE IF ~io
    THEN [reply |-> ErrorIndicator("exception"), table |-> table]
    ELSE [reply |-> [EmptyMap EXCEPT !.status = Str("ok"),
                                     !.rows_inserted = IntV(Len(csv.rows))],
          table |-> Table(csv.rows)]

\* Default of list_returns' limit, and the limit generate_report asks for.
DefaultLimit == 500

\* list_returns
list_returns(table, limit, io) ==
    IF ~io THEN ErrorIndicator("exception")
    ELSE IF ~table.exists THEN ErrorIndicator("returns table missing")
    ELSE LET result == Take(table.rows, limit) IN
         [EmptyMap EXCEPT !.status = Str("ok"), !.rows = List(result),
                          !.count = IntV(Len(result))]

\* query_db: chain is FALSE where get_db_chain() returns None, io is FALSE
\* where chain.invoke raises.
query_db(chain, io) ==
    IF ~chain THEN ErrorIndicator("chain not initialised")
    ELSE IF ~io THEN ErrorIndicator("exception")
    ELSE [EmptyMap EXCEPT !.status = Str("ok"), !.result = NestedMap]

\* The SQL query_db runs may insert, update or delete rows.
TablesAfterQuery(table) ==
    IF ~table.exists THEN {table}
    ELSE {table, Table(<<>>)} \cup
         {Table(Append(table.rows, Len(table.rows) + 1)) : x \in
              IF Len(table.rows) < MaxRows THEN {1} ELSE {}}

(***************************************************************************)
(* The reporting agent (src/agents/report_agents.py)                       *)
(***************************************************************************)
ErrorEnvelope(text) ==
    [EmptyMap EXCEPT !.status = Str("error"), !.message = Str(text)]

\* generate_excel_report: columns is FALSE where a required column is
\* missing, bytes is the file written, or <<>> where the writer raises.
generate_excel_report(rows, columns, bytes) ==
    IF ~IsList(rows) THEN ErrorEnvelope("rows has the wrong type")
    ELSE IF ~Truthy(rows) THEN ErrorEnvelope("rows is empty")
    ELSE IF ~columns THEN ErrorEnvelope("missing columns")
    ELSE IF bytes = <<>> THEN ErrorEnvelope("excel generation failed")
    ELSE [EmptyMap EXCEPT !.status = Str("ok"),
                          !.file_name = Str("returns_report.xlsx"),
                          !.file_base64 = Base64Str(b64encode(bytes)),
                          !.message = Str("report generated")]

(***************************************************************************)
(* Replies of other shapes, which unwrap_rows and the pass-through         *)
(* branches also have to accept (a stand-in agent, another server).        *)
(***************************************************************************)
FullRows == [i \in 1..MaxRows |-> i]
ForeignRows == {<<>>, FullRows}

ListForeign ==
    {CallToolResult(PMap([EmptyMap EXCEPT !.result = List(s)])) : s \in ForeignRows}
    \cup {CallToolResult(PVal(List(s))) : s \in ForeignRows}
    \cup {Plain(PMap([EmptyMap EXCEPT !.rows = List(s)])) : s \in ForeignRows}
    \cup {Plain(PMap([EmptyMap EXCEPT !.result = List(s)])) : s \in ForeignRows}
    \cup {Plain(PVal(List(s))) : s \in ForeignRows}
    \cup { CallToolResult(PVal(None)),
           CallToolResult(PMap([EmptyMap EXCEPT !.rows = None])),
           CallToolResult(PMap([EmptyMap EXCEPT !.status = Str("ok"), !.result = NestedMap])),
           Plain(PVal(None)),
           Plain(PMap(ErrorEnvelope("agent failed"))),
           Plain(PMap([EmptyMap EXCEPT !.rows = List(<<>>), !.result = Str("no rows")])),
           Plain(PMap([EmptyMap EXCEPT !.status = Str("ok"), !.result = NestedMap])) }

PassForeign ==
    { CallToolResult(PVal(None)),
      Plain(PMap(ErrorEnvelope("agent failed"))),
      CallToolResult(PMap([EmptyMap EXCEPT !.status = Str("ok"),
                                           !.file_base64 = Base64Str(<<1, 2, 3>>)])),
      CallToolResult(PMap([EmptyMap EXCEPT !.status = Str("ok"),
                                           !.file_name = Str("other.xlsx"),
                                           !.file_base64 = Base64Str(<<20, 4, 44, 5>>)])) }

(***************************************************************************)
(* State                                                                   *)
(***************************************************************************)
\* Configuration: the SQLite file the coordinator's init_db opens, and the
\* values DB_PATH may take (its default, or the coordinator's own file).
CoordinatorDb == "returns.db"
DbPaths == {"/tmp/returns.db", "returns.db"}
DefaultFileName == "returns_report.xlsx"
FileNames == {"returns_report.xlsx", "other.xlsx"}
Prompts == {"list all returns"}

VARIABLES
    req,          \* per request: the position of process_endpoint and its locals
    fs,           \* the files of tempfile.gettempdir(), by name
    db,           \* the returns table of each SQLite file
    csv,          \* sample.csv
    DB_PATH,      \* the retrieval agent's DB_PATH
    boot,         \* position of the process start: init_db, then serving
    boots,        \* number of process starts so far
    ingestLog,    \* the ingest_csv runs init_db triggered, with their outcome
    bootNet       \* whether the agent answers init_db's call

vars == <<req, fs, db, csv, DB_PATH, boot, boots, ingestLog, bootNet>>

NoPlan == Plan("none", Absent, "absent", Absent, "")
NoResponse == [kind |-> "none", body |-> PVal(Absent), bytes |-> <<>>]
\* An exception that leaves process_endpoint: the server answers 500 with no
\* envelope.
Http500 == [kind |-> "http500", body |-> PVal(Absent), bytes |-> <<>>]
Json(result) == [kind |-> "json", body |-> result, bytes |-> <<>>]
FileResponse(bytes) == [kind |-> "file", body |-> PVal(Absent), bytes |-> bytes]

IdleReq ==
    [pc |-> "idle", prompt |-> "", plan |-> NoPlan, net |-> "up", resp |-> NoReply,
     rows |-> Absent, result |-> PVal(Absent), sent |-> NoResponse, exc |-> "",
     path |-> "", reportCalls |-> 0, remoteCalls |-> 0]

Nets == {"up", "silent"}
Awaiting == {"call_ingest", "call_query", "call_list", "call_list_report", "call_report"}

Raise(q, cause) ==
    [q EXCEPT !.pc = "raised", !.exc = cause, !.sent = Http500, !.net = "up"]
Call(q, pc, n) == [q EXCEPT !.pc = pc, !.net = n, !.remoteCalls = @ + 1]

\* process_endpoint once process_request has returned result: the report is
\* decoded and written under the temporary directory, any other result is
\* returned as it is.
process_endpoint(q, result, files) ==
    IF IsDict(result) /\ result.m.status = Str("ok") /\ Has(result.m, "file_base64")
    THEN LET name == Get(result.m, "file_name", Str(DefaultFileName)) IN
         IF ~Decodable(result.m.file_base64)
         THEN [q |-> Raise([q EXCEPT !.result = result], "b64decode"), fs |-> files]
         ELSE IF ~IsStr(name)
         THEN [q |-> Raise([q EXCEPT !.result = result], "TypeError"), fs |-> files]
         ELSE [q |-> [q EXCEPT !.pc = "streaming", !.net = "up", !.result = result,
                                 !.path = name.text],
               fs |-> [files EXCEPT ![name.text] = b64decode(result.m.file_base64.items)]]
    ELSE [q |-> [q EXCEPT !.pc = "done", !.net = "up", !.result = result,
                            !.sent = Json(result)],
          fs |-> files]

Finish(r, q, result) ==
    LET out == process_endpoint(q, result, fs) IN
    /\ req' = [req EXCEPT ![r] = out.q]
    /\ fs' = out.fs

\* resp.structured_content if isinstance(resp, CallToolResult) else resp
PassThrough(resp) == resp.p

\* `if rows is None`
RowsEmpty_IsNone(rows) == rows = None

\* `if not rows`
RowsEmpty(rows) == ~Truthy(rows)

Limit(args) == IF args = "limit" THEN 1 ELSE DefaultLimit

reqVars == <<req, fs>>
bootVars == <<boot, boots, ingestLog, bootNet>>
config == <<csv, DB_PATH>>

(***************************************************************************)
(* POST /process: process_endpoint and process_request                     *)
(***************************************************************************)
\* A request arrives. process_endpoint calls process_request, which routes
\* (a blocking call of the oracle) and runs to its first remote call.
Receive(r) ==
    /\ boot = "serving"
    /\ req[r].pc = "idle"
    /\ \E prompt \in Prompts, out \in LlmOutcomes, n \in Nets :
         LET routed == interpret_with_llm(out)
             plan == routed.plan
             q == [req[r] EXCEPT !.prompt = prompt, !.plan = plan]
             branch == Branch(PlanTool(plan))
         IN  IF routed.raised
             THEN req' = [req EXCEPT ![r] = Raise([req[r] EXCEPT !.prompt = prompt], "oracle")]
                  /\ UNCHANGED fs
             ELSE IF plan.kind # "map"
             THEN req' = [req EXCEPT ![r] = Raise(q, "AttributeError")] /\ UNCHANGED fs
             ELSE CASE branch = "ingest" ->
                         req' = [req EXCEPT ![r] = Call(q, "call_ingest", n)] /\ UNCHANGED fs
                    [] branch = "query" ->
                         /\ req' = [req EXCEPT ![r] =
                                IF plan.args = "list" THEN Raise(q, "TypeError")
                                ELSE Call(q, "call_query", n)]
                         /\ UNCHANGED fs
                    [] branch = "list" ->
                         req' = [req EXCEPT ![r] = Call(q, "call_list", n)] /\ UNCHANGED fs
                    [] branch = "report" ->
                         req' = [req EXCEPT ![r] = Call(q, "call_list_report", n)]
                         /\ UNCHANGED fs
                    [] OTHER ->
                         Finish(r, q, PMap([EmptyMap EXCEPT !.status = Str("error"),
                                                            !.message = UnknownMessage(plan)]))
    /\ UNCHANGED <<db, bootVars, config>>

\* The ingestion agent answers: {"status": "ok", "message": result}.
IngestReply(r) ==
    /\ req[r].pc = "call_ingest" /\ req[r].net = "up"
    /\ \E io \in BOOLEAN :
         LET out == ingest_csv(csv, db[DB_PATH], io)
             resp == CallToolResult(PMap(out.reply))
         IN  /\ db' = [db EXCEPT ![DB_PATH] = out.table]
             /\ Finish(r, [req[r] EXCEPT !.resp = resp],
                       PMap([EmptyMap EXCEPT !.status = Str("ok"), !.message = ReplyObject]))
    /\ UNCHANGED <<bootVars, config>>

\* The retrieval agent answers query_db: the payload is passed through.
QueryReply(r) ==
    /\ req[r].pc = "call_query" /\ req[r].net = "up"
    /\ \E chain \in BOOLEAN, io \in BOOLEAN, foreign \in BOOLEAN :
         IF foreign
         THEN /\ chain /\ io
              /\ \E resp \in PassForeign :
                    Finish(r, [req[r] EXCEPT !.resp = resp], PassThrough(resp))
              /\ UNCHANGED db
         ELSE LET resp == CallToolResult(PMap(query_db(chain, io))) IN
              /\ \E t \in (IF chain /\ io THEN TablesAfterQuery(db[DB_PATH])
                           ELSE {db[DB_PATH]}) :
                    db' = [db EXCEPT ![DB_PATH] = t]
              /\ Finish(r, [req[r] EXCEPT !.resp = resp], PassThrough(resp))
    /\ UNCHANGED <<bootVars, config>>

\* What a call of list_returns may answer.
ListReplies(limit) ==
    {CallToolResult(PMap(list_returns(db[DB_PATH], limit, io))) : io \in BOOLEAN}
    \cup ListForeign

\* The retrieval agent answers list_returns on the list branch.
ListReply(r) ==
    /\ req[r].pc = "call_list" /\ req[r].net = "up"
    /\ \E resp \in ListReplies(Limit(req[r].plan.args)) :
         LET rows == unwrap_rows(resp)
             q == [req[r] EXCEPT !.resp = resp, !.rows = rows]
         IN  IF ~HasLen(rows)
             THEN req' = [req EXCEPT ![r] = Raise(q, "TypeError")] /\ UNCHANGED fs
             ELSE Finish(r, q, PMap([EmptyMap EXCEPT !.status = Str("ok"), !.rows = rows]))
    /\ UNCHANGED <<db, bootVars, config>>

\* The retrieval agent answers list_returns on the report branch: an empty
\* result ends the request, any other is sent to the reporting agent (resp
\* is not read again and is not kept).
ReportListReply(r) ==
    /\ req[r].pc = "call_list_report" /\ req[r].net = "up"
    /\ \E resp \in ListReplies(DefaultLimit), n \in Nets :
         LET rows == unwrap_rows(resp)
             q == [req[r] EXCEPT !.resp = resp, !.rows = rows]
         IN  IF RowsEmpty(rows)
             THEN Finish(r, q, PMap(ErrorEnvelope("no data, no report")))
             ELSE /\ req' = [req EXCEPT ![r] =
                        [Call([req[r] EXCEPT !.rows = rows], "call_report", n)
                            EXCEPT !.reportCalls = @ + 1]]
                  /\ UNCHANGED fs
    /\ UNCHANGED <<db, bootVars, config>>

\* The reporting agent answers: the payload is passed through.
ReportReply(r) ==
    /\ req[r].pc = "call_report" /\ req[r].net = "up"
    /\ \E rep \in {CallToolResult(PMap(generate_excel_report(req[r].rows, c, b))) :
                      c \in BOOLEAN, b \in FileContents \cup {<<>>}} \cup PassForeign :
         Finish(r, req[r], PassThrough(rep))
    /\ UNCHANGED <<db, bootVars, config>>

\* A remote call raises (connection refused, a malformed reply, a tool
\* error): nothing in process_request or process_endpoint catches it.
TransportFailure(r) ==
    /\ req[r].pc \in Awaiting /\ req[r].net = "up"
    /\ req' = [req EXCEPT ![r] = Raise(req[r], "transport")]
    /\ UNCHANGED <<fs, db, bootVars, config>>

\* The server sends the FileResponse: it reads the file at tmp_path now.
Stream(r) ==
    /\ req[r].pc = "streaming"
    /\ req' = [req EXCEPT ![r] = [@ EXCEPT !.pc = "done",
                                           !.sent = FileResponse(fs[req[r].path])]]
    /\ UNCHANGED <<fs, db, bootVars, config>>

RequestStep(r) ==
    \/ Receive(r) \/ IngestReply(r) \/ QueryReply(r) \/ ListReply(r)
    \/ ReportListReply(r) \/ ReportReply(r) \/ TransportFailure(r) \/ Stream(r)

NoFile == <<>>

Init ==
    /\ req = [r \in Reqs |-> IdleReq]
    /\ fs = [f \in FileNames |-> NoFile]
    /\ DB_PATH = "/tmp/returns.db"
    /\ csv \in CsvFiles
    /\ \E t \in Tables : db = [p \in DbPaths |-> IF p = DB_PATH THEN t ELSE NoTable]
    /\ boot = "serving" /\ boots = 1 /\ ingestLog = <<>> /\ bootNet = "up"

Next ==
    \/ \E r \in Reqs : Receive(r)
    \/ \E r \in Reqs : IngestReply(r)
    \/ \E r \in Reqs : QueryReply(r)
    \/ \E r \in Reqs : ListReply(r)
    \/ \E r \in Reqs : ReportListReply(r)
    \/ \E r \in Reqs : ReportReply(r)
    \/ \E r \in Reqs : TransportFailure(r)
    \/ \E r \in Reqs : Stream(r)

Spec == Init /\ [][Next]_vars

(***************************************************************************)
(* Process start: init_db of the coordinator, run before the server        *)
(***************************************************************************)
\* SELECT COUNT(*) FROM returns on the coordinator's own file; count is 0
\* where the query raises (no table).
LocalCount == IF db[CoordinatorDb].exists THEN Len(db[CoordinatorDb].rows) ELSE 0

InitDbCheck ==
    /\ boot = "start"
    /\ IF LocalCount > 0
       THEN boot' = "serving" /\ UNCHANGED bootNet
       ELSE boot' = "ingesting" /\ bootNet' \in Nets
    /\ UNCHANGED <<req, fs, db, boots, ingestLog, config>>

\* The retrieval agent runs ingest_csv on its own DB_PATH and answers.
InitDbIngest ==
    /\ boot = "ingesting" /\ bootNet = "up"
    /\ \E io \in BOOLEAN :
         LET out == ingest_csv(csv, db[DB_PATH], io) IN
         /\ db' = [db EXCEPT ![DB_PATH] = out.table]
         /\ ingestLog' = Append(ingestLog, out.reply)
    /\ boot' = "serving"
    /\ UNCHANGED <<req, fs, boots, bootNet, config>>

\* The call raises before it reaches the agent: init_db logs it and returns.
InitDbFailure ==
    /\ boot = "ingesting" /\ bootNet = "up"
    /\ boot' = "serving"
    /\ UNCHANGED <<req, fs, db, boots, ingestLog, bootNet, config>>

\* The process is started again; the SQLite files stay.
Restart ==
    /\ boot = "serving" /\ boots < MaxBoots
    /\ boot' = "start" /\ boots' = boots + 1
    /\ UNCHANGED <<req, fs, db, ingestLog, bootNet, config>>

InitBoot ==
    /\ req = [r \in Reqs |-> IdleReq]
    /\ fs = [f \in FileNames |-> NoFile]
    /\ DB_PATH \in DbPaths
    /\ csv \in CsvFiles
    /\ db \in [DbPaths -> Tables]
    /\ boot = "start" /\ boots = 1 /\ ingestLog = <<>> /\ bootNet = "up"

NextBoot == InitDbCheck \/ InitDbIngest \/ InitDbFailure \/ Restart

SpecBoot == InitBoot /\ [][NextBoot]_vars

(***************************************************************************)
(* Properties                                                              *)
(***************************************************************************)
Returned(r) == req[r].result # PVal(Absent)
RoutedTo(r, branch) ==
    /\ req[r].plan # NoPlan /\ req[r].plan.kind = "map"
    /\ Branch(PlanTool(req[r].plan)) = branch
StatusIs(p, st) == IsDict(p) /\ p.m.status = Str(st)
\* An empty normalized result: a sequence of no rows, or no value at all.
EmptyResult(v) == (IsList(v) /\ Len(v.items) = 0) \/ v = None
Normalized(r) == req[r].rows # Absent

\* C1: on the report branch, whenever the rows normalized from the
\* list_returns reply are empty, the reporting agent was not called during
\* the request and the request has returned an envelope of status "error".
C1_EmptyReportShortCircuits ==
    \A r \in Reqs :
        (RoutedTo(r, "report") /\ Normalized(r) /\ EmptyResult(req[r].rows))
            => /\ req[r].reportCalls = 0
               /\ req[r].pc = "done"
               /\ StatusIs(req[r].result, "error")
               /\ req[r].sent = Json(req[r].result)

\* C1 witness: a report request whose retrieval reply was a plain None has
\* ended with the error envelope and no call of the reporting agent.
C1_Witness ==
    \E r \in Reqs :
        /\ RoutedTo(r, "report") /\ req[r].resp = Plain(PVal(None))
        /\ req[r].rows = EmptyList /\ req[r].reportCalls = 0
        /\ req[r].pc = "done" /\ StatusIs(req[r].result, "error")

\* C2: interpret_with_llm never raises and process_request always gets a
\* mapping from it: no request ends with the oracle's exception or with the
\* AttributeError of plan.get on a value that is no mapping.
C2_RouteNeverRaises ==
    \A r \in Reqs : req[r].exc \notin {"oracle", "AttributeError"}

\* The resolution order of the specification's normalizer: rows as it is
\* when the key is present, else result when it is a sequence, else the
\* payload itself when it is a sequence, else the empty sequence.
normalize(reply) ==
    LET p == reply.p IN
    IF IsDict(p) /\ Has(p.m, "rows") THEN p.m.rows
    ELSE IF IsDict(p) /\ Has(p.m, "result") /\ IsList(p.m.result) THEN p.m.result
    ELSE IF IsListP(p) THEN p.v
    ELSE EmptyList

\* C3: for every reply, the rows unwrap_rows returned are what the
\* specification's resolution order returns, and they are a sequence.
C3_UnwrapFollowsResolutionOrder ==
    \A r \in Reqs :
        (Normalized(r) /\ req[r].resp # NoReply)
            => req[r].rows = normalize(req[r].resp) /\ IsList(req[r].rows)

\* C4: a remote call that fails in transport ends the request with an
\* error envelope {status: "error", message} sent to the caller.
C4_TransportFailureGetsEnvelope ==
    \A r \in Reqs :
        req[r].exc = "transport"
            => /\ req[r].sent.kind = "json"
               /\ StatusIs(req[r].sent.body, "error")
               /\ IsStr(req[r].sent.body.m.message)

\* C5: every envelope process_request returns with status "error" has a
\* string under message.
C5_ErrorEnvelopeHasMessage ==
    \A r \in Reqs :
        (Returned(r) /\ StatusIs(req[r].result, "error"))
            => IsStr(req[r].result.m.message)

\* C6: when the downstream reply of a list or ingest request is an error
\* indicator (no rows, status "error"), process_request returns status
\* "error".
C6_MissingPayloadIsError ==
    \A r \in Reqs :
        (/\ Returned(r)
         /\ RoutedTo(r, "list") \/ RoutedTo(r, "ingest")
         /\ StatusIs(req[r].resp.p, "error")
         /\ ~Has(req[r].resp.p.m, "rows"))
            => StatusIs(req[r].result, "error")

\* C7: once a run of init_db has triggered an ingestion that succeeded and
\* inserted rows, no later run triggers another one.
C7_IngestAtMostOnce ==
    \A i \in 1..Len(ingestLog) :
        (/\ ingestLog[i].status = Str("ok")
         /\ ingestLog[i].rows_inserted.items[1] > 0)
            => i = Len(ingestLog)

\* C8: a request waiting for a remote agent can always take a step, also
\* when the agent never answers: the wait is bounded by a timeout.
C8_RemoteCallBounded ==
    \A r \in Reqs : req[r].pc \in Awaiting => ENABLED RequestStep(r)

\* C9: the file sent to a caller holds the decoded file_base64 of that
\* caller's own reporting reply.
C9_FileIsOwnReport ==
    \A r \in Reqs :
        (req[r].pc = "done" /\ req[r].sent.kind = "file")
            => req[r].sent.bytes = b64decode(req[r].result.m.file_base64.items)

\* C10: for a routing decision whose tool is "none", missing or outside the
\* four tool names, process_request makes no remote call and returns the
\* error envelope whose message holds the routing decision.
C10_UnknownToolIsError ==
    \A r \in Reqs :
        (/\ req[r].plan # NoPlan /\ req[r].plan.kind = "map"
         /\ PlanTool(req[r].plan) \notin {Str("ingest_csv"), Str("query_db"),
                                          Str("list_returns"), Str("generate_report")})
            => /\ req[r].remoteCalls = 0
               /\ req[r].pc = "done"
               /\ StatusIs(req[r].result, "error")
               /\ req[r].result.m.message = Str("unknown task: " \o req[r].plan.repr)
               /\ req[r].sent = Json(req[r].result)

\* C10 witness: a decision without a tool key has been answered with the
\* error envelope, no remote call made.
C10_Witness ==
    \E r \in Reqs :
        /\ req[r].plan.kind = "map" /\ req[r].plan.tool = Absent
        /\ req[r].pc = "done" /\ req[r].remoteCalls = 0
        /\ req[r].result.m.message = Str("unknown task: {'args': {}}")

====
